---- MODULE Spec2Model ----
(***************************************************************************)
(* A model of research/reinforcement_learning.py: the AttrDict records,    *)
(* the tabular Q-learning agent and its epsilon-greedy decorator, the      *)
(* GridWorld and SimpleTMaze environments, the two memory decorators and   *)
(* the run_episodes driver.                                                *)
(*                                                                         *)
(* Encodings.  A Python float is an exact rational <<num, den>>, den > 0,  *)
(* in lowest terms.  A Python dict is the sequence of its <<key, value>>   *)
(* pairs in insertion order.  An AttrDict object is a record [kind, name,  *)
(* attributes]; Python's None is the record None where an object is        *)
(* expected, the number NoneValue where an attribute value is expected and *)
(* the empty tuple NoReward where a reward is expected.  An object (the    *)
(* agent, the environment) is a record of its fields, passed as self; a    *)
(* method that both returns a value and changes the object returns         *)
(* [ret |-> ..., self |-> ...].                                            *)
(***************************************************************************)
EXTENDS Integers, Sequences, FiniteSets, TLC

VARIABLES
    agent,      \* the Agent object
    env,        \* the Environment object
    call,       \* the call just made: its arguments and outcome (a read: its name)
    written,    \* history: the cursor pairs of the observe_reward calls so far
    updates,    \* history: the number of observe_reward calls so far
    run,        \* the local variables and position of run_episodes
    rec         \* two records a and b, with a == b, hash(a) and hash(b)

vars == <<agent, env, call, written, updates, run, rec>>

-----------------------------------------------------------------------------
(* Bounds of the model. *)

\* observe_reward calls made on the agent in the agent specification
MaxUpdates == 2

\* memory slots of a gating_memory environment
MaxMemorySlots == 2

\* working-memory and long-term slots of a fixed_long_term_memory environment
MaxWmSlots == 1
MaxLtmSlots == 2

\* episodes run by run_episodes (its num_episodes argument)
NumEpisodes == 2

\* iterations of the while loop of run_episodes followed in one episode
MaxSteps == 4

\* the longest memory vector given to augment_state
MaxVectorLen == 2

\* the longest hallway of a SimpleTMaze (its length argument) in the episode
\* specification and in the twin specification
MaxLength == 3
MaxTwinLength == 2

\* the interpreter's recursion limit (sys.getrecursionlimit()), in frames of
\* EpsilonGreedyMetaAgent.act
RecursionLimit == 2

-----------------------------------------------------------------------------
(* Rational arithmetic standing for Python's float arithmetic. *)

Abs(n) == IF n < 0 THEN -n ELSE n

RECURSIVE GCD(_, _)
GCD(a, b) == IF b = 0 THEN a ELSE GCD(b, a % b)

Rat(n, d) ==
    LET g == GCD(Abs(n), d) IN <<n \div g, d \div g>>

Zero == <<0, 1>>
One == <<1, 1>>

RatAdd(a, b) == Rat(a[1] * b[2] + b[1] * a[2], a[2] * b[2])
RatSub(a, b) == Rat(a[1] * b[2] - b[1] * a[2], a[2] * b[2])
RatMul(a, b) == Rat(a[1] * b[1], a[2] * b[2])
RatLess(a, b) == a[1] * b[2] < b[1] * a[2]

-----------------------------------------------------------------------------
(* AttrDict, Action, State. *)

\* The attribute names in use, in Python's string order (sorted() compares
\* the (key, value) tuples, whose keys are distinct strings).
KeyOrder ==
    << "attribute", "col", "goal_x",
       "ltm_0", "ltm_1", "ltm_2", "ltm_3", "ltm_slot",
       "memory_0", "memory_1", "memory_2", "memory_3",
       "row", "slot", "symbol",
       "wm_0", "wm_1", "wm_2", "wm_3", "wm_slot",
       "x", "y" >>

Rank(k) == CHOOSE i \in 1..Len(KeyOrder) : KeyOrder[i] = k

\* prefix + '{}'.format(i), for the three prefixes of the memory decorators
SlotKeys ==
    [ memory_ |-> <<"memory_0", "memory_1", "memory_2", "memory_3">>,
      wm_     |-> <<"wm_0", "wm_1", "wm_2", "wm_3">>,
      ltm_    |-> <<"ltm_0", "ltm_1", "ltm_2", "ltm_3">> ]

SlotKey(prefix, i) == SlotKeys[prefix][i + 1]

\* key.startswith(prefix): no other attribute name begins with a prefix
startswith(key, prefix) ==
    \E i \in 1..Len(SlotKeys[prefix]) : SlotKeys[prefix][i] = key

\* Python's None, where an object is expected
None == [kind |-> "NoneType", name |-> "", attributes |-> <<>>]

\* Python's None, where an attribute value (a number) is expected
NoneValue == -9

\* Python's None, where a reward is expected
NoReward == <<>>

State(kwargs) == [kind |-> "State", name |-> "", attributes |-> kwargs]

Action(name, kwargs) == [kind |-> "Action", name |-> name, attributes |-> kwargs]

\* self._attributes_.items(), as a set: the keys of a dict are distinct
items(d) == {d.attributes[i] : i \in 1..Len(d.attributes)}

\* sorted(self._attributes_.items())
RECURSIVE sorted(_)
sorted(its) ==
    IF its = {} THEN <<>>
    ELSE LET m == CHOOSE p \in its : \A q \in its : Rank(p[1]) <= Rank(q[1])
         IN  <<m>> \o sorted(its \ {m})

\* AttrDict.__hash__: the hash of a tuple is modelled by the tuple itself
AttrDict_hash(d) == sorted(items(d))

\* Action.__hash__: tuple([self.name, *sorted(self)]); the name is held as
\* a 1-tuple so that every element of the tuple is a tuple
Action_hash(a) == <<<<a.name>>>> \o sorted(items(a))

hash(o) ==
    IF o.kind = "Action" THEN Action_hash(o)
    ELSE IF o.kind = "State" THEN AttrDict_hash(o)
    ELSE <<<<>>>>

\* AttrDict.__eq__ (and None == None)
AttrDict_eq(a, b) ==
    a.kind = b.kind /\ items(a) = items(b)

\* action in actions, for a list: Python compares with ==
in_list(a, list) == \E i \in 1..Len(list) : AttrDict_eq(a, list[i])

-----------------------------------------------------------------------------
(* dict: a sequence of <<key, value>> pairs in insertion order.  A key is  *)
(* found when the hashes agree and the keys are ==.                        *)

key_match(a, b) == AttrDict_eq(a, b) /\ hash(a) = hash(b)

contains(d, k) == \E i \in 1..Len(d) : key_match(d[i][1], k)

index(d, k) == CHOOSE i \in 1..Len(d) : key_match(d[i][1], k)

getitem(d, k) == d[index(d, k)][2]

setitem(d, k, v) ==
    IF contains(d, k) THEN [d EXCEPT ![index(d, k)][2] = v]
    ELSE Append(d, <<k, v>>)

keys(d) == [i \in 1..Len(d) |-> d[i][1]]

-----------------------------------------------------------------------------
(* Agent and TabularQLearningAgent.  self is the record                    *)
(* [value_function, prev_observation, prev_action, learning_rate,          *)
(*  discount_rate, exploration_rate].                                      *)

\* TabularQLearningAgent.__init__ (and EpsilonGreedyMetaAgent.__init__)
TabularQLearningAgent(learning_rate, discount_rate, exploration_rate) ==
    [ value_function   |-> <<>>,
      prev_observation |-> None,
      prev_action      |-> None,
      learning_rate    |-> learning_rate,
      discount_rate    |-> discount_rate,
      exploration_rate |-> exploration_rate ]

\* Agent.start_new_episode
Agent_start_new_episode(self) ==
    [self EXCEPT !.prev_observation = None, !.prev_action = None]

\* TabularQLearningAgent.get_value.  value_function[observation] is a
\* defaultdict(float): indexing it with a missing action stores 0.0 there.
get_value(self, observation, action) ==
    IF ~contains(self.value_function, observation)
    THEN [ret |-> Zero, self |-> self]
    ELSE LET values == getitem(self.value_function, observation) IN
         IF contains(values, action)
         THEN [ret |-> getitem(values, action), self |-> self]
         ELSE [ret  |-> Zero,
               self |-> [self EXCEPT !.value_function =
                            setitem(@, observation, Append(values, <<action, Zero>>))]]

\* a mutant of get_stored_actions: the actions stored at the first
\* observation of the table, whatever the observation asked for
get_stored_actions_first(self, observation) ==
    IF self.value_function = <<>> THEN <<>>
    ELSE keys(self.value_function[1][2])

\* TabularQLearningAgent.get_stored_actions
get_stored_actions(self, observation) ==
    IF ~contains(self.value_function, observation) THEN <<>>
    ELSE keys(getitem(self.value_function, observation))

\* a mutant of max_index: a later equal value replaces the maximum so far
RECURSIVE max_index_last(_, _, _)
max_index_last(vals, i, best) ==
    IF i > Len(vals) THEN best
    ELSE max_index_last(vals, i + 1, IF RatLess(vals[i], vals[best]) THEN best ELSE i)

\* max(iterable, key=...): the index of the maximum, scanning from i with
\* best the maximum so far; only a strictly greater value replaces it
RECURSIVE max_index(_, _, _)
max_index(vals, i, best) ==
    IF i > Len(vals) THEN best
    ELSE max_index(vals, i + 1, IF RatLess(vals[best], vals[i]) THEN i ELSE best)

\* Agent.get_best_action.  The key function reads stored pairs only, so it
\* leaves the table as it is.
get_best_action(self, observation) ==
    LET actions == get_stored_actions(self, observation)
        vals == [i \in 1..Len(actions) |-> get_value(self, observation, actions[i]).ret]
    IN  IF actions = <<>> THEN None
        ELSE actions[max_index(vals, 2, 1)]

\* Agent.get_best_value
get_best_value(self, observation) ==
    get_value(self, observation, get_best_action(self, observation))

\* a mutant of force_act: the action is kept whatever the observation
force_act_always(self, observation, action) ==
    [self EXCEPT !.prev_observation = observation, !.prev_action = action]

\* Agent.force_act; the action is the return value
force_act(self, observation, action) ==
    [self EXCEPT !.prev_observation = observation,
                 !.prev_action = IF observation = None THEN None ELSE action]

\* Agent.act, the actions it may return: the best stored action, else
\* rng.choice(actions)
Agent_act_choices(self, observation, actions) ==
    LET best_action == get_best_action(self, observation) IN
    IF best_action = None THEN {actions[i] : i \in 1..Len(actions)}
    ELSE {best_action}

\* a mutant of observe_reward: the new value is written at the current
\* observation instead of the previous one
observe_reward_at_observation(self, observation, reward) ==
    LET r1 == get_value(self, self.prev_observation, self.prev_action)
        prev_value == r1.ret
        r2 == get_best_value(r1.self, observation)
        next_value == RatAdd(reward, RatMul(self.discount_rate, r2.ret))
        new_value == RatAdd(RatMul(RatSub(One, self.learning_rate), prev_value),
                            RatMul(self.learning_rate, next_value))
        vf == r2.self.value_function
        values == IF contains(vf, observation) THEN getitem(vf, observation) ELSE <<>>
    IN  [r2.self EXCEPT !.value_function =
            setitem(vf, observation, setitem(values, self.prev_action, new_value))]

\* TabularQLearningAgent.observe_reward, for a reward that is a number
observe_reward(self, observation, reward) ==
    LET r1 == get_value(self, self.prev_observation, self.prev_action)
        prev_value == r1.ret
        r2 == get_best_value(r1.self, observation)
        next_value == RatAdd(reward, RatMul(self.discount_rate, r2.ret))
        new_value == RatAdd(RatMul(RatSub(One, self.learning_rate), prev_value),
                            RatMul(self.learning_rate, next_value))
        vf == r2.self.value_function
        values == IF contains(vf, self.prev_observation)
                  THEN getitem(vf, self.prev_observation) ELSE <<>>
    IN  [r2.self EXCEPT !.value_function =
            setitem(vf, self.prev_observation,
                    setitem(values, self.prev_action, new_value))]

\* TabularQLearningAgent.observe_reward with reward=None: the two reads are
\* made, then reward + ... raises TypeError before the write
observe_reward_none(self, observation) ==
    get_best_value(get_value(self, self.prev_observation, self.prev_action).self,
                   observation).self

\* EpsilonGreedyMetaAgent.act for a non-empty action list.  draws[i] is
\* whether the i-th rng.random() was below exploration_rate; the else
\* branch calls self.act, which is this method again, so every draw that is
\* not below the rate adds a frame until the interpreter's limit is hit.
\* The result is the depth at which a draw was below the rate, or 0 when
\* RecursionError is raised.
RECURSIVE EpsilonGreedyMetaAgent_act(_, _)
EpsilonGreedyMetaAgent_act(draws, depth) ==
    IF depth > Len(draws) THEN 0
    ELSE IF draws[depth] THEN depth
    ELSE EpsilonGreedyMetaAgent_act(draws, depth + 1)

-----------------------------------------------------------------------------
(* Environments.  self is the record of the fields of GridWorld, of        *)
(* SimpleTMaze and of the two memory decorators; cls names the base class  *)
(* and wrapper the decorator ("" for a bare environment).  A method that   *)
(* the source calls on self is the dispatching operator (get_state), one   *)
(* it calls on super() is the base class's (super_get_state).              *)

RECURSIVE get_state(_), get_observation(_), get_actions(_)

NoSlots == <<>>

\* GridWorld.__init__; start and goal are [row, col]
GridWorld(width, height, start, goal) ==
    [ cls |-> "GridWorld", wrapper |-> "",
      width |-> width, height |-> height, start |-> start, goal |-> goal,
      row |-> start[1], col |-> start[2],
      length |-> 0, hint_pos |-> 0, init_goal_x |-> 0, goal_x |-> 0, x |-> 0, y |-> 0,
      reward |-> Zero, memories |-> NoSlots, wm |-> NoSlots, ltm |-> NoSlots ]

\* SimpleTMaze.__init__
SimpleTMaze(length, hint_pos, goal_x) ==
    [ cls |-> "SimpleTMaze", wrapper |-> "",
      width |-> 0, height |-> 0, start |-> <<0, 0>>, goal |-> <<0, 0>>,
      row |-> 0, col |-> 0,
      length |-> length, hint_pos |-> hint_pos, init_goal_x |-> goal_x,
      goal_x |-> 0, x |-> 0, y |-> 0,
      reward |-> Zero, memories |-> NoSlots, wm |-> NoSlots, ltm |-> NoSlots ]

\* num * [None]
Nones(num) == [i \in 1..num |-> NoneValue]

\* gating_memory(cls, num_memory_slots, reward)(...): GatingMemoryMetaEnvironment.__init__
gating_memory(base, num_memory_slots, reward) ==
    [base EXCEPT !.wrapper = "gating_memory", !.reward = reward,
                 !.memories = Nones(num_memory_slots)]

\* fixed_long_term_memory(cls, num_wm_slots, num_ltm_slots, reward)(...):
\* LongTermMemoryMetaEnvironment.__init__
fixed_long_term_memory(base, num_wm_slots, num_ltm_slots, reward) ==
    [base EXCEPT !.wrapper = "fixed_long_term_memory", !.reward = reward,
                 !.wm = Nones(num_wm_slots), !.ltm = Nones(num_ltm_slots)]

\* the attribute names of a record, in iteration order
attrs(d) == [i \in 1..Len(d.attributes) |-> d.attributes[i][1]]

hasattr(d, key) == \E i \in 1..Len(d.attributes) : d.attributes[i][1] = key

\* getattr(d, key), AttrDict.__getattr__
getattr(d, key) ==
    d.attributes[CHOOSE i \in 1..Len(d.attributes) : d.attributes[i][1] = key][2]

\* a mutant of augment_state: the attributes that carry the prefix are kept
augment_state_keep(state, memories, prefix) ==
    State([i \in 1..Len(memories) |-> <<SlotKey(prefix, i - 1), memories[i]>>]
          \o state.attributes)

\* augment_state
augment_state(state, memories, prefix) ==
    LET kept == SelectSeq(state.attributes, LAMBDA kv : ~startswith(kv[1], prefix))
    IN  State([i \in 1..Len(memories) |-> <<SlotKey(prefix, i - 1), memories[i]>>]
              \o kept)

\* GridWorld.get_state
GridWorld_get_state(self) == State(<<<<"row", self.row>>, <<"col", self.col>>>>)

\* GridWorld.get_observation: self.get_state(), the decorator's when decorated
GridWorld_get_observation(self) == get_state(self)

\* a mutant of SimpleTMaze.get_observation: the symbol is shown at every y
SimpleTMaze_get_observation_always(self) ==
    State(<<<<"x", self.x>>, <<"y", self.y>>, <<"symbol", self.goal_x>>>>)

\* SimpleTMaze.get_observation
SimpleTMaze_get_observation(self) ==
    IF self.y = self.hint_pos
    THEN State(<<<<"x", self.x>>, <<"y", self.y>>, <<"symbol", self.goal_x>>>>)
    ELSE State(<<<<"x", self.x>>, <<"y", self.y>>, <<"symbol", 0>>>>)

\* SimpleTMaze.get_state: self.get_observation(), the decorator's when decorated
SimpleTMaze_get_state(self) ==
    State(<<<<"goal_x", self.goal_x>>>> \o get_observation(self).attributes)

\* super().get_state() in a decorator
super_get_state(self) ==
    IF self.cls = "GridWorld" THEN GridWorld_get_state(self)
    ELSE SimpleTMaze_get_state(self)

\* super().get_observation() in a decorator
super_get_observation(self) ==
    IF self.cls = "GridWorld" THEN GridWorld_get_observation(self)
    ELSE SimpleTMaze_get_observation(self)

\* GatingMemoryMetaEnvironment.get_state
GatingMemory_get_state(self) ==
    augment_state(super_get_state(self), self.memories, "memory_")

\* GatingMemoryMetaEnvironment.get_observation
GatingMemory_get_observation(self) ==
    augment_state(super_get_observation(self), self.memories, "memory_")

\* LongTermMemoryMetaEnvironment.get_state
LongTermMemory_get_state(self) ==
    augment_state(augment_state(super_get_state(self), self.wm, "wm_"),
                  self.ltm, "ltm_")

\* LongTermMemoryMetaEnvironment.get_observation
LongTermMemory_get_observation(self) ==
    augment_state(super_get_observation(self), self.wm, "wm_")

get_state(self) ==
    IF self.wrapper = "gating_memory" THEN GatingMemory_get_state(self)
    ELSE IF self.wrapper = "fixed_long_term_memory" THEN LongTermMemory_get_state(self)
    ELSE super_get_state(self)

get_observation(self) ==
    IF self.wrapper = "gating_memory" THEN GatingMemory_get_observation(self)
    ELSE IF self.wrapper = "fixed_long_term_memory"
    THEN LongTermMemory_get_observation(self)
    ELSE super_get_observation(self)

\* GridWorld.get_actions
GridWorld_get_actions(self) ==
    IF <<self.row, self.col>> = self.goal THEN <<>>
    ELSE (IF self.row > 0 THEN <<Action("up", <<>>)>> ELSE <<>>)
         \o (IF self.row < self.height - 1 THEN <<Action("down", <<>>)>> ELSE <<>>)
         \o (IF self.col > 0 THEN <<Action("left", <<>>)>> ELSE <<>>)
         \o (IF self.col < self.width - 1 THEN <<Action("right", <<>>)>> ELSE <<>>)

\* SimpleTMaze.get_actions
SimpleTMaze_get_actions(self) ==
    IF self.x = 0
    THEN IF self.y < self.length THEN <<Action("up", <<>>)>>
         ELSE IF self.y = self.length
         THEN <<Action("left", <<>>), Action("right", <<>>)>>
         ELSE <<>>
    ELSE <<>>

\* super().get_actions() in a decorator
super_get_actions(self) ==
    IF self.cls = "GridWorld" THEN GridWorld_get_actions(self)
    ELSE SimpleTMaze_get_actions(self)

\* for outer in range(n): for inner in range(m): the k-th iteration
\* (k = 1, 2, ..) has these values of the two loop variables
loop_outer(k, m) == (k - 1) \div m
loop_inner(k, m) == (k - 1) % m

\* a mutant of GatingMemory_get_actions: no attribute is skipped
GatingMemory_get_actions_all(self) ==
    LET actions == super_get_actions(self)
        names == attrs(super_get_observation(self))
        m == Len(names)
    IN  IF actions = <<>> THEN actions
        ELSE actions \o
             [k \in 1..(Len(self.memories) * m) |->
                 Action("gate", <<<<"slot", loop_outer(k, m)>>,
                                  <<"attribute", names[loop_inner(k, m) + 1]>>>>)]

\* GatingMemoryMetaEnvironment.get_actions
GatingMemory_get_actions(self) ==
    LET actions == super_get_actions(self)
        names == SelectSeq(attrs(super_get_observation(self)),
                           LAMBDA attr : ~startswith(attr, "memory_"))
        m == Len(names)
    IN  IF actions = <<>> THEN actions
        ELSE actions \o
             [k \in 1..(Len(self.memories) * m) |->
                 Action("gate", <<<<"slot", loop_outer(k, m)>>,
                                  <<"attribute", names[loop_inner(k, m) + 1]>>>>)]

\* LongTermMemoryMetaEnvironment.get_actions
LongTermMemory_get_actions(self) ==
    LET actions == super_get_actions(self)
        names == SelectSeq(attrs(super_get_observation(self)),
                           LAMBDA attr : ~startswith(attr, "wm_"))
        m == Len(names)
        l == Len(self.ltm)
    IN  IF actions = <<>> THEN actions
        ELSE actions
             \o [k \in 1..(l * m) |->
                    Action("store", <<<<"slot", loop_outer(k, m)>>,
                                      <<"attribute", names[loop_inner(k, m) + 1]>>>>)]
             \o [k \in 1..(Len(self.wm) * l) |->
                    Action("retrieve", <<<<"wm_slot", loop_outer(k, l)>>,
                                         <<"ltm_slot", loop_inner(k, l)>>>>)]

get_actions(self) ==
    IF self.wrapper = "gating_memory" THEN GatingMemory_get_actions(self)
    ELSE IF self.wrapper = "fixed_long_term_memory" THEN LongTermMemory_get_actions(self)
    ELSE super_get_actions(self)

\* Environment.end_of_episode
end_of_episode(self) == get_actions(self) = <<>>

\* GridWorld.start_new_episode
GridWorld_start_new_episode(self) ==
    [self EXCEPT !.row = self.start[1], !.col = self.start[2]]

\* a mutant of SimpleTMaze.start_new_episode: goal_x is always init_goal_x
SimpleTMaze_start_new_episode_init(self, choice) ==
    [self EXCEPT !.x = 0, !.y = 0, !.goal_x = self.init_goal_x]

\* SimpleTMaze.start_new_episode; choice is the value of rng.choice([-1, 1])
SimpleTMaze_start_new_episode(self, choice) ==
    [self EXCEPT !.x = 0, !.y = 0,
                 !.goal_x = IF self.init_goal_x = 0 THEN choice ELSE self.init_goal_x]

\* super().start_new_episode() in a decorator
super_start_new_episode(self, choice) ==
    IF self.cls = "GridWorld" THEN GridWorld_start_new_episode(self)
    ELSE SimpleTMaze_start_new_episode(self, choice)

\* a mutant of start_new_episode: the decorator leaves its slots alone
start_new_episode_base(self, choice) ==
    IF self.cls = "GridWorld" THEN GridWorld_start_new_episode(self)
    ELSE SimpleTMaze_start_new_episode(self, choice)

\* start_new_episode of GatingMemoryMetaEnvironment and of
\* LongTermMemoryMetaEnvironment, and the base class's when bare
start_new_episode(self, choice) ==
    LET base == super_start_new_episode(self, choice) IN
    IF self.wrapper = "gating_memory"
    THEN [base EXCEPT !.memories = Nones(Len(self.memories))]
    ELSE IF self.wrapper = "fixed_long_term_memory"
    THEN [base EXCEPT !.wm = Nones(Len(self.wm)), !.ltm = Nones(Len(self.ltm))]
    ELSE base

\* reset: the base class's reset calls self.start_new_episode(), the
\* decorator's when decorated; the decorator's reset then clears its slots
reset(self, choice) ==
    LET base == start_new_episode(self, choice) IN
    IF self.wrapper = "gating_memory"
    THEN [base EXCEPT !.memories = Nones(Len(base.memories))]
    ELSE IF self.wrapper = "fixed_long_term_memory"
    THEN [base EXCEPT !.wm = Nones(Len(base.wm)), !.ltm = Nones(Len(base.ltm))]
    ELSE base

Max(a, b) == IF a > b THEN a ELSE b
Min(a, b) == IF a < b THEN a ELSE b

\* the result of react: the reward, the environment after it, the exception
Returned(reward, self) == [ret |-> reward, self |-> self, raised |-> ""]
Raised(exception, self) == [ret |-> NoReward, self |-> self, raised |-> exception]

\* GridWorld.react
GridWorld_react(self, action) ==
    IF ~in_list(action, get_actions(self)) THEN Raised("AssertionError", self)
    ELSE LET moved ==
                 IF action.name = "up" THEN [self EXCEPT !.row = Max(0, self.row - 1)]
                 ELSE IF action.name = "down"
                 THEN [self EXCEPT !.row = Min(self.height - 1, self.row + 1)]
                 ELSE IF action.name = "left"
                 THEN [self EXCEPT !.col = Max(0, self.col - 1)]
                 ELSE IF action.name = "right"
                 THEN [self EXCEPT !.col = Min(self.width - 1, self.col + 1)]
                 ELSE self
         IN  Returned(IF <<moved.row, moved.col>> = moved.goal THEN One ELSE Rat(-1, 1),
                      moved)

\* SimpleTMaze.react
SimpleTMaze_react(self, action) ==
    IF ~in_list(action, get_actions(self)) THEN Raised("AssertionError", self)
    ELSE LET moved ==
                 IF action.name = "up" THEN [self EXCEPT !.y = self.y + 1]
                 ELSE IF action.name = "right" THEN [self EXCEPT !.x = self.x + 1]
                 ELSE IF action.name = "left" THEN [self EXCEPT !.x = self.x - 1]
                 ELSE self
         IN  Returned(IF moved.y = moved.length
                      THEN IF moved.x = moved.goal_x THEN Rat(10, 1)
                           ELSE IF moved.x = -moved.goal_x THEN Rat(-10, 1)
                           ELSE Rat(-1, 1)
                      ELSE IF action.name = "gate" THEN Rat(-1, 20)
                      ELSE Rat(-1, 1),
                      moved)

\* super().react(action) in a decorator
super_react(self, action) ==
    IF self.cls = "GridWorld" THEN GridWorld_react(self, action)
    ELSE SimpleTMaze_react(self, action)

\* list[i] = value for a Python index i: a negative index counts from the end
list_set(list, i, value) ==
    [list EXCEPT ![IF i < 0 THEN Len(list) + i + 1 ELSE i + 1] = value]

list_has(list, i) == -Len(list) <= i /\ i < Len(list)

list_get(list, i) == list[IF i < 0 THEN Len(list) + i + 1 ELSE i + 1]

\* GatingMemoryMetaEnvironment.react
GatingMemory_react(self, action) ==
    IF action.name = "gate"
    THEN IF ~hasattr(action, "slot") \/ ~hasattr(action, "attribute")
         THEN Raised("AttributeError", self)
         ELSE IF ~hasattr(super_get_observation(self), getattr(action, "attribute"))
         THEN Raised("AttributeError", self)
         ELSE IF ~list_has(self.memories, getattr(action, "slot"))
         THEN Raised("IndexError", self)
         ELSE Returned(self.reward,
                       [self EXCEPT !.memories =
                           list_set(@, getattr(action, "slot"),
                                    getattr(super_get_observation(self),
                                            getattr(action, "attribute")))])
    ELSE super_react(self, action)

\* LongTermMemoryMetaEnvironment.react
LongTermMemory_react(self, action) ==
    IF action.name = "store"
    THEN IF ~hasattr(action, "slot") \/ ~hasattr(action, "attribute")
         THEN Raised("AttributeError", self)
         ELSE IF ~hasattr(super_get_observation(self), getattr(action, "attribute"))
         THEN Raised("AttributeError", self)
         ELSE IF ~list_has(self.ltm, getattr(action, "slot"))
         THEN Raised("IndexError", self)
         ELSE Returned(self.reward,
                       [self EXCEPT !.ltm =
                           list_set(@, getattr(action, "slot"),
                                    getattr(super_get_observation(self),
                                            getattr(action, "attribute")))])
    ELSE IF action.name = "retrieve"
    THEN IF ~hasattr(action, "wm_slot") \/ ~hasattr(action, "ltm_slot")
         THEN Raised("AttributeError", self)
         ELSE IF ~list_has(self.ltm, getattr(action, "ltm_slot"))
                 \/ ~list_has(self.wm, getattr(action, "wm_slot"))
         THEN Raised("IndexError", self)
         ELSE Returned(self.reward,
                       [self EXCEPT !.wm =
                           list_set(@, getattr(action, "wm_slot"),
                                    list_get(self.ltm, getattr(action, "ltm_slot")))])
    ELSE super_react(self, action)

react(self, action) ==
    IF self.wrapper = "gating_memory" THEN GatingMemory_react(self, action)
    ELSE IF self.wrapper = "fixed_long_term_memory"
    THEN LongTermMemory_react(self, action)
    ELSE super_react(self, action)

-----------------------------------------------------------------------------
(* The values the variables of another specification are parked at. *)

NoCall ==
    [ op |-> "", observation |-> None, action |-> None, actions |-> <<>>,
      reward |-> NoReward, ret |-> None, value |-> Zero, raised |-> "",
      below |-> FALSE, before |-> None, memories |-> <<>>, prefix |-> "" ]

NoAgent == TabularQLearningAgent(One, Zero, Zero)
NoEnv == [cls |-> ""]
NoRun ==
    [ pc |-> "", epsilon_greedy |-> FALSE, episode |-> 0, returns |-> <<>>,
      episodic_return |-> Zero, reward |-> NoReward, step |-> 0,
      obs |-> None, actions |-> <<>>, action |-> None ]
NoRec == [a |-> None, b |-> None, eq |-> TRUE, hash_a |-> hash(None), hash_b |-> hash(None)]

-----------------------------------------------------------------------------
(* The agent specification: the methods of one epsilon-greedy-wrapped      *)
(* TabularQLearningAgent, called in any order with any arguments.          *)

AgentObservations == {State(<<<<"x", 0>>>>)}

AgentActions == {Action("up", <<>>), Action("down", <<>>)}

AgentActionLists ==
    { <<>>, <<Action("up", <<>>)>>, <<Action("up", <<>>), Action("down", <<>>)>> }

AgentRewards == {Rat(-1, 1), Rat(5, 1)}

\* (learning_rate, discount_rate, exploration_rate)
AgentConfigs ==
    { <<One, Zero, Zero>>, <<Rat(1, 2), Rat(9, 10), Rat(1, 2)>>, <<One, One, One>> }

\* the outcomes of rng.random() < exploration_rate: random() is in [0, 1)
BelowOutcomes(exploration_rate) ==
    {TRUE : x \in {0} \cap {IF RatLess(Zero, exploration_rate) THEN 0 ELSE 1}}
    \cup {FALSE : x \in {0} \cap {IF RatLess(exploration_rate, One) THEN 0 ELSE 1}}

\* get_value, called from outside; the read may change the table
DoGetValue ==
    \E observation \in AgentObservations, action \in AgentActions :
        /\ agent' = get_value(agent, observation, action).self
        /\ call' = [NoCall EXCEPT !.op = "get_value"]
        /\ UNCHANGED <<env, written, updates, run, rec>>

DoGetStoredActions ==
    \E observation \in AgentObservations :
        /\ Len(get_stored_actions(agent, observation)) >= 0
        /\ call' = [NoCall EXCEPT !.op = "get_stored_actions"]
        /\ UNCHANGED <<agent, env, written, updates, run, rec>>

DoGetBestAction ==
    \E observation \in AgentObservations :
        /\ get_best_action(agent, observation).kind \in {"Action", "NoneType"}
        /\ call' = [NoCall EXCEPT !.op = "get_best_action"]
        /\ UNCHANGED <<agent, env, written, updates, run, rec>>

DoGetBestValue ==
    \E observation \in AgentObservations :
        /\ agent' = get_best_value(agent, observation).self
        /\ call' = [NoCall EXCEPT !.op = "get_best_value"]
        /\ UNCHANGED <<env, written, updates, run, rec>>

\* Agent.act: rng.choice of an empty list raises IndexError
DoAct ==
    \E observation \in AgentObservations, actions \in AgentActionLists :
        LET choices == Agent_act_choices(agent, observation, actions) IN
        \/ /\ choices = {}
           /\ call' = [NoCall EXCEPT !.op = "act", !.observation = observation,
                                     !.actions = actions, !.raised = "IndexError"]
           /\ UNCHANGED <<agent, env, written, updates, run, rec>>
        \/ \E action \in choices :
           /\ agent' = force_act(agent, observation, action)
           /\ call' = [NoCall EXCEPT !.op = "act", !.observation = observation,
                                     !.actions = actions, !.ret = action]
           /\ UNCHANGED <<env, written, updates, run, rec>>

\* force_act; the observation may be None
DoForceAct ==
    \E observation \in AgentObservations \cup {None}, action \in AgentActions :
        /\ agent' = force_act(agent, observation, action)
        /\ call' = [NoCall EXCEPT !.op = "force_act", !.observation = observation,
                                  !.action = action, !.ret = action]
        /\ UNCHANGED <<env, written, updates, run, rec>>

\* observe_reward; the observation of a finished episode may be None
DoObserveReward ==
    \E observation \in AgentObservations \cup {None}, reward \in AgentRewards :
        /\ updates < MaxUpdates
        /\ agent' = observe_reward(agent, observation, reward)
        /\ call' = [NoCall EXCEPT !.op = "observe_reward",
                                  !.observation = observation, !.reward = reward]
        /\ written' = written \cup {<<agent.prev_observation, agent.prev_action>>}
        /\ updates' = updates + 1
        /\ UNCHANGED <<env, run, rec>>

DoStartNewEpisode ==
    /\ agent' = Agent_start_new_episode(agent)
    /\ call' = [NoCall EXCEPT !.op = "start_new_episode"]
    /\ UNCHANGED <<env, written, updates, run, rec>>

\* EpsilonGreedyMetaAgent.act(observation, actions, reward)
DoEpsilonGreedyAct ==
    \E observation \in AgentObservations, actions \in AgentActionLists,
       reward \in AgentRewards \cup {NoReward} :
        LET this == [NoCall EXCEPT !.op = "epsilon_greedy_act",
                                   !.observation = observation,
                                   !.actions = actions, !.reward = reward]
        IN
        \/ /\ actions = <<>>
           /\ reward = NoReward
           /\ agent' = observe_reward_none(agent, observation)
           /\ call' = [this EXCEPT !.raised = "TypeError"]
           /\ written' = written \cup {<<agent.prev_observation, agent.prev_action>>}
           /\ UNCHANGED <<env, updates, run, rec>>
        \/ /\ actions = <<>>
           /\ reward # NoReward
           /\ updates < MaxUpdates
           /\ agent' = observe_reward(agent, observation, reward)
           /\ call' = this
           /\ written' = written \cup {<<agent.prev_observation, agent.prev_action>>}
           /\ updates' = updates + 1
           /\ UNCHANGED <<env, run, rec>>
        \/ /\ actions # <<>>
           /\ reward = NoReward
           /\ \E draws \in [1..RecursionLimit -> BelowOutcomes(agent.exploration_rate)] :
              LET depth == EpsilonGreedyMetaAgent_act(draws, 1) IN
              \/ /\ depth = 0
                 /\ call' = [this EXCEPT !.raised = "RecursionError",
                                         !.below = draws[1]]
                 /\ UNCHANGED <<agent, env, written, updates, run, rec>>
              \/ /\ depth > 0
                 /\ \E i \in 1..Len(actions) :
                    /\ agent' = force_act(agent, observation, actions[i])
                    /\ call' = [this EXCEPT !.ret = actions[i], !.below = draws[1]]
                 /\ UNCHANGED <<env, written, updates, run, rec>>

InitAgent ==
    /\ \E config \in AgentConfigs :
          agent = TabularQLearningAgent(config[1], config[2], config[3])
    /\ env = NoEnv
    /\ call = NoCall
    /\ written = {}
    /\ updates = 0
    /\ run = NoRun
    /\ rec = NoRec

NextAgent ==
    \/ DoGetValue
    \/ DoGetStoredActions
    \/ DoGetBestAction
    \/ DoGetBestValue
    \/ DoAct
    \/ DoForceAct
    \/ DoObserveReward
    \/ DoStartNewEpisode
    \/ DoEpsilonGreedyAct

SpecAgent == InitAgent /\ [][NextAgent]_vars

-----------------------------------------------------------------------------
(* The environment specification: the methods of one environment, bare or  *)
(* decorated, called in any order; react is called with any action, legal  *)
(* or not.                                                                 *)

\* the base environments: GridWorld(width, height, start, goal) and
\* SimpleTMaze(length, hint_pos, goal_x)
EnvBases ==
    { GridWorld(3, 1, <<0, 0>>, <<0, 2>>),
      GridWorld(2, 2, <<0, 0>>, <<1, 1>>),
      SimpleTMaze(2, 0, 0),
      SimpleTMaze(2, 1, 1) }

\* the reward of an internal action
InternalRewards == {Zero}

Environments ==
    EnvBases
    \cup {gating_memory(base, n, reward) :
              base \in EnvBases, n \in 0..MaxMemorySlots, reward \in InternalRewards}
    \cup {fixed_long_term_memory(base, w, l, reward) :
              base \in EnvBases, w \in 0..MaxWmSlots, l \in 0..MaxLtmSlots,
              reward \in InternalRewards}

BaseActionNames == {"up", "down", "left", "right"}

\* the actions react is called with: the four moves, and every gate, store
\* and retrieve action over the slots and over the attributes of the base
\* observation
EnvActions(self) ==
    LET names == {attrs(super_get_observation(self))[i] :
                      i \in 1..Len(super_get_observation(self).attributes)}
    IN  {Action(name, <<>>) : name \in BaseActionNames}
        \cup {Action("gate", <<<<"slot", slot>>, <<"attribute", attr>>>>) :
                  slot \in 0..(Len(self.memories) - 1), attr \in names}
        \cup {Action("store", <<<<"slot", slot>>, <<"attribute", attr>>>>) :
                  slot \in 0..(Len(self.ltm) - 1), attr \in names}
        \cup {Action("retrieve", <<<<"wm_slot", w>>, <<"ltm_slot", l>>>>) :
                  w \in 0..(Len(self.wm) - 1), l \in 0..(Len(self.ltm) - 1)}

DoReact ==
    \E action \in EnvActions(env) :
        LET r == react(env, action) IN
        /\ env' = r.self
        /\ call' = [NoCall EXCEPT !.op = "react", !.action = action,
                                  !.reward = r.ret, !.raised = r.raised]
        /\ UNCHANGED <<agent, written, updates, run, rec>>

\* start_new_episode and reset; call.before is get_state() before the call
DoEnvStartNewEpisode ==
    \E choice \in {-1, 1} :
        /\ env' = start_new_episode(env, choice)
        /\ call' = [NoCall EXCEPT !.op = "start_new_episode",
                                  !.before = get_state(env)]
        /\ UNCHANGED <<agent, written, updates, run, rec>>

DoReset ==
    \E choice \in {-1, 1} :
        /\ env' = reset(env, choice)
        /\ call' = [NoCall EXCEPT !.op = "reset", !.before = get_state(env)]
        /\ UNCHANGED <<agent, written, updates, run, rec>>

\* get_state, get_observation, get_actions, end_of_episode: reads
DoGetState ==
    /\ get_state(env).kind = "State"
    /\ call' = [NoCall EXCEPT !.op = "get_state"]
    /\ UNCHANGED <<agent, env, written, updates, run, rec>>

DoGetObservation ==
    /\ get_observation(env).kind = "State"
    /\ call' = [NoCall EXCEPT !.op = "get_observation"]
    /\ UNCHANGED <<agent, env, written, updates, run, rec>>

DoGetActions ==
    /\ Len(get_actions(env)) >= 0
    /\ call' = [NoCall EXCEPT !.op = "get_actions"]
    /\ UNCHANGED <<agent, env, written, updates, run, rec>>

DoEndOfEpisode ==
    /\ end_of_episode(env) \in BOOLEAN
    /\ call' = [NoCall EXCEPT !.op = "end_of_episode"]
    /\ UNCHANGED <<agent, env, written, updates, run, rec>>

InitEnv ==
    /\ env \in Environments
    /\ agent = NoAgent
    /\ call = NoCall
    /\ written = {}
    /\ updates = 0
    /\ run = NoRun
    /\ rec = NoRec

NextEnv ==
    \/ DoReact
    \/ DoEnvStartNewEpisode
    \/ DoReset
    \/ DoGetState
    \/ DoGetObservation
    \/ DoGetActions
    \/ DoEndOfEpisode

SpecEnv == InitEnv /\ [][NextEnv]_vars

-----------------------------------------------------------------------------
(* The record specification: two State / Action objects are constructed    *)
(* and compared.                                                           *)

RecordKeys == {"x", "y"}
RecordValues == {0, 1}
RecordNames == {"up", "down"}

\* the keyword arguments of a constructor call, in the order they are given
RecordKwargs ==
    {<<>>}
    \cup {<<<<k, v>>>> : k \in RecordKeys, v \in RecordValues}
    \cup {kw \in {<<<<k1, v1>>, <<k2, v2>>>> :
                      k1 \in RecordKeys, k2 \in RecordKeys,
                      v1 \in RecordValues, v2 \in RecordValues} :
              kw[1][1] # kw[2][1]}

Records ==
    {State(kwargs) : kwargs \in RecordKwargs}
    \cup {Action(name, kwargs) : name \in RecordNames, kwargs \in RecordKwargs}

\* a is constructed anew and compared with b: a == b, hash(a), hash(b)
DoConstructA ==
    \E a \in Records :
        /\ rec' = [a |-> a, b |-> rec.b, eq |-> AttrDict_eq(a, rec.b),
                   hash_a |-> hash(a), hash_b |-> hash(rec.b)]
        /\ UNCHANGED <<agent, env, call, written, updates, run>>

\* b is constructed anew and a compared with it
DoConstructB ==
    \E b \in Records :
        /\ rec' = [a |-> rec.a, b |-> b, eq |-> AttrDict_eq(rec.a, b),
                   hash_a |-> hash(rec.a), hash_b |-> hash(b)]
        /\ UNCHANGED <<agent, env, call, written, updates, run>>

InitRecord ==
    /\ rec = NoRec
    /\ agent = NoAgent
    /\ env = NoEnv
    /\ call = NoCall
    /\ written = {}
    /\ updates = 0
    /\ run = NoRun

NextRecord == DoConstructA \/ DoConstructB

SpecRecord == InitRecord /\ [][NextRecord]_vars

-----------------------------------------------------------------------------
(* The augment_state specification: augment_state is applied to a state,   *)
(* a memory vector and a prefix, and then again to its own result.         *)

\* the prefixes of the two decorators
Prefixes == {"memory_", "wm_", "ltm_"}

\* the values of a memory slot
SlotValues == {NoneValue, 1}

\* the memory vectors
Vectors == UNION {[1..n -> SlotValues] : n \in 0..MaxVectorLen}

\* the states without slot attributes: of GridWorld and of SimpleTMaze
PlainStates ==
    { State(<<<<"row", 0>>, <<"col", 1>>>>),
      State(<<<<"x", 0>>, <<"y", 1>>, <<"symbol", 1>>>>),
      State(<<<<"goal_x", 1>>, <<"x", 0>>, <<"y", 1>>, <<"symbol", 0>>>>) }

\* the states given to augment_state: plain, or already carrying the slot
\* attributes of one prefix
AugmentStates ==
    {State([i \in 1..Len(vector) |-> <<SlotKey(prefix, i - 1), vector[i]>>]
           \o plain.attributes) :
        plain \in PlainStates, vector \in Vectors, prefix \in Prefixes}

\* augment_state(state, memories, prefix), on the arguments drawn
DoAugmentState ==
    /\ call.op = ""
    /\ call' = [call EXCEPT !.op = "augment_state",
                            !.ret = augment_state(call.observation, call.memories,
                                                  call.prefix)]
    /\ UNCHANGED <<agent, env, written, updates, run, rec>>

\* augment_state(result, memories, prefix) on the result of the call before,
\* with a vector of the same length
DoAugmentResult ==
    /\ call.op = "augment_state"
    /\ \E memories \in Vectors :
        /\ Len(memories) = Len(call.memories)
        /\ call' = [call EXCEPT !.observation = call.ret, !.memories = memories,
                                !.ret = augment_state(call.ret, memories, call.prefix)]
    /\ UNCHANGED <<agent, env, written, updates, run, rec>>

\* the arguments of the first call are drawn
InitAugment ==
    /\ \E state \in AugmentStates, memories \in Vectors, prefix \in Prefixes :
           call = [NoCall EXCEPT !.observation = state, !.memories = memories,
                                 !.prefix = prefix]
    /\ agent = NoAgent
    /\ env = NoEnv
    /\ written = {}
    /\ updates = 0
    /\ run = NoRun
    /\ rec = NoRec

NextAugment == DoAugmentState \/ DoAugmentResult

SpecAugment == InitAugment /\ [][NextAugment]_vars

-----------------------------------------------------------------------------
(* run_episodes(env, agent, num_episodes).  run holds its local variables, *)
(* whether agent is epsilon-greedy-wrapped, and pc: "for" at the head of   *)
(* the for loop, "while" at the head of the while loop, "react" between    *)
(* agent.act and env.react, "done" after the return, or the name of the    *)
(* exception that ended the run.                                           *)

\* the environments run: GridWorld and SimpleTMaze, bare and decorated
RunEnvironments ==
    { GridWorld(3, 1, <<0, 0>>, <<0, 2>>),
      gating_memory(GridWorld(3, 1, <<0, 0>>, <<0, 2>>), 1, Zero),
      fixed_long_term_memory(GridWorld(3, 1, <<0, 0>>, <<0, 2>>), 1, 1, Zero),
      GridWorld(2, 2, <<0, 0>>, <<1, 1>>),
      SimpleTMaze(2, 0, 0),
      gating_memory(SimpleTMaze(2, 0, 0), 1, Zero),
      fixed_long_term_memory(SimpleTMaze(2, 0, 0), 1, 1, Zero) }

\* the agents run: TabularQLearningAgent(learning_rate, discount_rate)
RunAgents ==
    { TabularQLearningAgent(One, One, Zero),
      TabularQLearningAgent(Rat(1, 2), Rat(1, 2), Zero) }

\* the epsilon-greedy agents run, on the corridor with a gating memory:
\* EpsilonGreedyMetaAgent(exploration_rate, learning_rate, discount_rate)
RunEpsilonGreedyAgents ==
    { TabularQLearningAgent(Rat(1, 2), Rat(9, 10), Zero),
      TabularQLearningAgent(Rat(1, 2), Rat(1, 2), Rat(1, 2)) }

\* for _ in range(num_episodes): the start of an episode, up to the while
RunStartEpisode ==
    /\ run.pc = "for"
    /\ run.episode < NumEpisodes
    /\ \E choice \in {-1, 1} :
          LET started == start_new_episode(env, choice) IN
          /\ env' = started
          /\ agent' = Agent_start_new_episode(agent)
          /\ run' = [run EXCEPT !.pc = "while", !.episodic_return = Zero,
                                !.reward = NoReward, !.step = 0,
                                !.obs = get_observation(started),
                                !.actions = get_actions(started),
                                !.action = None]
    /\ UNCHANGED <<call, written, updates, rec>>

\* the for loop is over: return returns
RunReturn ==
    /\ run.pc = "for"
    /\ run.episode = NumEpisodes
    /\ run' = [run EXCEPT !.pc = "done"]
    /\ UNCHANGED <<agent, env, call, written, updates, rec>>

\* while not env.end_of_episode(): action = agent.act(obs, actions), for a
\* TabularQLearningAgent
RunAct ==
    /\ run.pc = "while"
    /\ ~run.epsilon_greedy
    /\ ~end_of_episode(env)
    /\ run.step < MaxSteps
    /\ \E action \in Agent_act_choices(agent, run.obs, run.actions) :
          /\ agent' = force_act(agent, run.obs, action)
          /\ run' = [run EXCEPT !.pc = "react", !.action = action]
    /\ UNCHANGED <<env, call, written, updates, rec>>

\* while not env.end_of_episode(): action = agent.act(obs, actions), for an
\* EpsilonGreedyMetaAgent; actions is not empty here
RunEpsilonGreedyAct ==
    /\ run.pc = "while"
    /\ run.epsilon_greedy
    /\ ~end_of_episode(env)
    /\ run.step < MaxSteps
    /\ \E draws \in [1..RecursionLimit -> BelowOutcomes(agent.exploration_rate)] :
          LET depth == EpsilonGreedyMetaAgent_act(draws, 1) IN
          \/ /\ depth = 0
             /\ run' = [run EXCEPT !.pc = "RecursionError"]
             /\ UNCHANGED agent
          \/ /\ depth > 0
             /\ \E i \in 1..Len(run.actions) :
                /\ agent' = force_act(agent, run.obs, run.actions[i])
                /\ run' = [run EXCEPT !.pc = "react", !.action = run.actions[i]]
    /\ UNCHANGED <<env, call, written, updates, rec>>

\* reward = env.react(action) and the rest of the body of the while loop
RunReact ==
    /\ run.pc = "react"
    /\ LET r == react(env, run.action) IN
       \/ /\ r.raised # ""
          /\ run' = [run EXCEPT !.pc = r.raised]
          /\ UNCHANGED <<agent, env>>
       \/ /\ r.raised = ""
          /\ env' = r.self
          /\ agent' = observe_reward(agent, get_observation(r.self), r.ret)
          /\ run' = [run EXCEPT !.pc = "while", !.reward = r.ret,
                                !.obs = get_observation(r.self),
                                !.actions = get_actions(r.self),
                                !.episodic_return = RatAdd(@, r.ret),
                                !.step = @ + 1]
    /\ UNCHANGED <<call, written, updates, rec>>

\* the while loop is over: returns.append(episodic_return)
RunEndEpisode ==
    /\ run.pc = "while"
    /\ end_of_episode(env)
    /\ run' = [run EXCEPT !.pc = "for", !.episode = @ + 1,
                          !.returns = Append(@, run.episodic_return)]
    /\ UNCHANGED <<agent, env, call, written, updates, rec>>

InitRun ==
    /\ env \in RunEnvironments
    /\ agent \in RunAgents
    /\ run = [NoRun EXCEPT !.pc = "for"]
    /\ call = NoCall
    /\ written = {}
    /\ updates = 0
    /\ rec = NoRec

NextRun ==
    \/ RunStartEpisode
    \/ RunReturn
    \/ RunAct
    \/ RunReact
    \/ RunEndEpisode

SpecRun == InitRun /\ [][NextRun]_vars

\* run_episodes with an epsilon-greedy agent
InitEndToEnd ==
    /\ env = gating_memory(GridWorld(3, 1, <<0, 0>>, <<0, 2>>), 1, Zero)
    /\ agent \in RunEpsilonGreedyAgents
    /\ run = [NoRun EXCEPT !.pc = "for", !.epsilon_greedy = TRUE]
    /\ call = NoCall
    /\ written = {}
    /\ updates = 0
    /\ rec = NoRec

NextEndToEnd ==
    \/ RunStartEpisode
    \/ RunReturn
    \/ RunEpsilonGreedyAct
    \/ RunReact
    \/ RunEndEpisode

\* run_episodes is one sequential loop: as long as a step of it is possible,
\* one is taken
SpecEndToEnd == InitEndToEnd /\ [][NextEndToEnd]_vars /\ WF_vars(NextEndToEnd)

-----------------------------------------------------------------------------
(* The twin specification: two copies of one memory-decorated SimpleTMaze  *)
(* are driven by the same calls.  env is the pair of the copies;           *)
(* start_new_episode draws the goal of each copy on its own, react is      *)
(* called on both with one action that is in get_actions() of both.        *)
(* written is the set of attributes gated or stored, since the episode     *)
(* began, while y equalled hint_pos.                                       *)

\* the <<length, hint_pos>> that SimpleTMaze.__init__ accepts, up to a length
MazeShapes(longest) ==
    {p \in (1..longest) \X (0..(longest - 1)) : p[2] < p[1]}

\* SimpleTMaze(length, hint_pos) with the goal left to chance
TwinBases ==
    {SimpleTMaze(p[1], p[2], 0) : p \in MazeShapes(MaxTwinLength)}

TwinEnvironments ==
    {gating_memory(base, n, reward) :
         base \in TwinBases, n \in 1..MaxMemorySlots, reward \in InternalRewards}
    \cup {fixed_long_term_memory(base, w, l, reward) :
              base \in TwinBases, w \in 1..MaxWmSlots, l \in 1..MaxLtmSlots,
              reward \in InternalRewards}

TwinStartNewEpisode ==
    \E first \in {-1, 1}, second \in {-1, 1} :
        /\ env' = <<start_new_episode(env[1], first),
                    start_new_episode(env[2], second)>>
        /\ written' = {}
        /\ call' = [NoCall EXCEPT !.op = "start_new_episode"]
        /\ UNCHANGED <<agent, updates, run, rec>>

TwinReact ==
    \E i \in 1..Len(get_actions(env[1])) :
        LET action == get_actions(env[1])[i]
            first  == react(env[1], action)
            second == react(env[2], action)
        IN  /\ in_list(action, get_actions(env[2]))
            /\ first.raised = ""
            /\ second.raised = ""
            /\ env' = <<first.self, second.self>>
            /\ written' =
                   IF /\ action.name \in {"gate", "store"}
                      /\ env[1].y = env[1].hint_pos
                   THEN written \cup {getattr(action, "attribute")}
                   ELSE written
            /\ call' = [NoCall EXCEPT !.op = "react"]
            /\ UNCHANGED <<agent, updates, run, rec>>

InitTwin ==
    /\ \E e \in TwinEnvironments : env = <<e, e>>
    /\ agent = NoAgent
    /\ call = NoCall
    /\ written = {}
    /\ updates = 0
    /\ run = NoRun
    /\ rec = NoRec

NextTwin ==
    \/ TwinStartNewEpisode
    \/ TwinReact

SpecTwin == InitTwin /\ [][NextTwin]_vars

-----------------------------------------------------------------------------
(* The episode specification: one bare SimpleTMaze, constructed with any   *)
(* goal_x, on which start_new_episode and react are called, react only     *)
(* with an action of get_actions().  run.pc is "constructed" until the     *)
(* first start_new_episode and "episode" from then on; run.actions and     *)
(* run.returns are the actions react was called with and the rewards it    *)
(* returned since the last start_new_episode, run.step their number.       *)

EpisodeEnvironments ==
    {SimpleTMaze(p[1], p[2], goal_x) : p \in MazeShapes(MaxLength), goal_x \in {-1, 0, 1}}

EpisodeStartNewEpisode ==
    \E choice \in {-1, 1} :
        /\ env' = start_new_episode(env, choice)
        /\ run' = [NoRun EXCEPT !.pc = "episode"]
        /\ call' = [NoCall EXCEPT !.op = "start_new_episode"]
        /\ UNCHANGED <<agent, written, updates, rec>>

EpisodeReact ==
    \E i \in 1..Len(get_actions(env)) :
        LET action == get_actions(env)[i]
            r      == react(env, action)
        IN  /\ r.raised = ""
            /\ env' = r.self
            /\ run' = [run EXCEPT !.step = run.step + 1,
                                  !.actions = Append(run.actions, action),
                                  !.returns = Append(run.returns, r.ret)]
            /\ call' = [NoCall EXCEPT !.op = "react", !.action = action,
                                      !.reward = r.ret]
            /\ UNCHANGED <<agent, written, updates, rec>>

InitEpisode ==
    /\ env \in EpisodeEnvironments
    /\ agent = NoAgent
    /\ call = NoCall
    /\ written = {}
    /\ updates = 0
    /\ run = NoRun
    /\ rec = NoRec

NextEpisode ==
    \/ EpisodeStartNewEpisode
    \/ EpisodeReact

SpecEpisode == InitEpisode /\ [][NextEpisode]_vars

-----------------------------------------------------------------------------
(* Claims about the agent, under SpecAgent. *)

\* the (observation, action) pairs that are keys of the value table
TableKeys(vf) ==
    UNION {{<<vf[i][1], vf[i][2][j][1]>> : j \in 1..Len(vf[i][2])} : i \in 1..Len(vf)}

\* the stored value of a pair, 0 when the pair is no key; a pure lookup
TableValue(vf, observation, action) ==
    IF contains(vf, observation) /\ contains(getitem(vf, observation), action)
    THEN getitem(getitem(vf, observation), action)
    ELSE Zero

\* C1: a call act(observation, actions) of the epsilon-greedy agent with a
\* non-empty action list returns, and when the first draw is not below the
\* exploration rate it returns what Agent.act would choose (the best stored
\* action, else a member of actions) and the cursor is (observation, that
\* action).
C1_EpsilonGreedyDelegates ==
    (call.op = "epsilon_greedy_act" /\ call.actions # <<>>) =>
        /\ call.raised = ""
        /\ ~call.below =>
            /\ call.ret \in Agent_act_choices(agent, call.observation, call.actions)
            /\ agent.prev_observation = call.observation
            /\ agent.prev_action = call.ret

\* C4: observe_reward(observation, reward) sets the entry of the cursor
\* pair to (1 - alpha) * prev_value + alpha * (reward + gamma *
\* get_best_value(observation)), the values being those of the table the
\* call found, and changes no other entry.
C4_ObserveRewardUpdate ==
    [][call'.op = "observe_reward" =>
        LET new_value ==
                RatAdd(RatMul(RatSub(One, agent.learning_rate),
                              TableValue(agent.value_function,
                                         agent.prev_observation, agent.prev_action)),
                       RatMul(agent.learning_rate,
                              RatAdd(call'.reward,
                                     RatMul(agent.discount_rate,
                                            get_best_value(agent, call'.observation).ret))))
        IN  /\ TableValue(agent'.value_function,
                          agent.prev_observation, agent.prev_action) = new_value
            /\ TableKeys(agent'.value_function) =
                   TableKeys(agent.value_function)
                       \cup {<<agent.prev_observation, agent.prev_action>>}
            /\ \A p \in TableKeys(agent.value_function) :
                   p # <<agent.prev_observation, agent.prev_action>> =>
                       TableValue(agent'.value_function, p[1], p[2]) =
                           TableValue(agent.value_function, p[1], p[2])
    ]_vars

\* C5: every (observation, action) key of the value table was the cursor
\* pair of an earlier observe_reward call.
C5_KeysOnlyWritten == TableKeys(agent.value_function) \subseteq written

\* C6: get_best_value(None) is 0 in every reachable state.
C6_TerminalBestValueZero == get_best_value(agent, None).ret = Zero

\* C7: get_value returns 0 for every pair that was never the cursor of an
\* observe_reward call, and get_best_value returns 0 for every observation
\* with no stored actions.
C7_UnwrittenValueZero ==
    /\ \A observation \in AgentObservations \cup {None},
          action \in AgentActions \cup {None} :
           <<observation, action>> \notin written =>
               get_value(agent, observation, action).ret = Zero
    /\ \A observation \in AgentObservations \cup {None} :
           get_stored_actions(agent, observation) = <<>> =>
               get_best_value(agent, observation).ret = Zero

\* C7 witness: a written pair holds a value other than 0 while another pair
\* of the table was never written, and some observation has nothing stored
C7_Witness ==
    /\ \E p \in written : TableValue(agent.value_function, p[1], p[2]) # Zero
    /\ TableKeys(agent.value_function) \ written # {}
    /\ \E observation \in AgentObservations \cup {None} :
           get_stored_actions(agent, observation) = <<>>

\* C8: get_best_action returns None when nothing is stored for the
\* observation, and otherwise the first stored action of maximal value.
C8_BestActionFirstMax ==
    \A observation \in AgentObservations \cup {None} :
        LET stored == get_stored_actions(agent, observation)
            best == get_best_action(agent, observation)
            val(i) == TableValue(agent.value_function, observation, stored[i])
        IN  IF stored = <<>> THEN best = None
            ELSE \E i \in 1..Len(stored) :
                    /\ best = stored[i]
                    /\ \A j \in 1..Len(stored) : ~RatLess(val(i), val(j))
                    /\ \A j \in 1..(i - 1) : RatLess(val(j), val(i))

\* C8 witness: two actions stored for an observation hold the same maximal
\* value, other than 0, and the first of them is the best action
C8_Witness ==
    \E observation \in AgentObservations :
        LET stored == get_stored_actions(agent, observation)
            val(i) == TableValue(agent.value_function, observation, stored[i])
        IN  /\ Len(stored) = 2
            /\ val(1) = val(2)
            /\ val(1) # Zero
            /\ get_best_action(agent, observation) = stored[1]

\* a call of act or force_act that returned an action
ReturnedAction(c) ==
    /\ c.raised = ""
    /\ \/ c.op \in {"act", "force_act"}
       \/ c.op = "epsilon_greedy_act" /\ c.actions # <<>>

\* C19: the cursor (prev_observation, prev_action) is (None, None) at
\* first and after start_new_episode, is the (observation, returned action)
\* pair after every act or force_act call, and is changed by no other call;
\* start_new_episode does not change the value table.
C19_CursorIsLastAct ==
    [][/\ ReturnedAction(call') =>
              /\ agent'.prev_observation = call'.observation
              /\ agent'.prev_action = call'.ret
       /\ call'.op = "start_new_episode" =>
              /\ agent'.prev_observation = None
              /\ agent'.prev_action = None
              /\ agent'.value_function = agent.value_function
       /\ (~ReturnedAction(call') /\ call'.op # "start_new_episode") =>
              /\ agent'.prev_observation = agent.prev_observation
              /\ agent'.prev_action = agent.prev_action
    ]_vars

\* C19, amended: as C19, but after act or force_act with the observation
\* None the cursor is (None, None), not (None, returned action).
C19_CursorIsLastDecision ==
    [][/\ ReturnedAction(call') =>
              /\ agent'.prev_observation = call'.observation
              /\ agent'.prev_action =
                     IF call'.observation = None THEN None ELSE call'.ret
       /\ call'.op = "start_new_episode" =>
              /\ agent'.prev_observation = None
              /\ agent'.prev_action = None
              /\ agent'.value_function = agent.value_function
       /\ (~ReturnedAction(call') /\ call'.op # "start_new_episode") =>
              /\ agent'.prev_observation = agent.prev_observation
              /\ agent'.prev_action = agent.prev_action
    ]_vars

\* C19 witness: observe_reward has written the table and the cursor is
\* still the pair of the act or force_act call before it
C19_Witness ==
    /\ call.op = "observe_reward"
    /\ agent.prev_observation # None
    /\ agent.prev_action # None
    /\ contains(agent.value_function, agent.prev_observation)

-----------------------------------------------------------------------------
(* Claims about the environments, under SpecEnv. *)

\* the names of the actions of a list
ActionNames(actions) == {actions[i].name : i \in 1..Len(actions)}

\* C2: react rejects, by assertion and leaving the environment as it was,
\* every move (up, down, left, right) whose name is not the name of an
\* action get_actions() currently returns.
C2_IllegalActionRejected ==
    [][(/\ call'.op = "react"
        /\ call'.action.attributes = <<>>
        /\ call'.action.name \in BaseActionNames
        /\ call'.action.name \notin ActionNames(get_actions(env)))
       => (call'.raised = "AssertionError" /\ env' = env)
    ]_vars

\* C10: for a gating_memory environment with n slots, get_actions() is []
\* when the base action list is empty, and otherwise the base actions
\* followed by exactly n * m gate actions, one per slot and per observation
\* attribute without the memory_ prefix (m of them), none of which names a
\* memory_ attribute.
C10_GateActions ==
    env.wrapper = "gating_memory" =>
        LET base == super_get_actions(env)
            actions == get_actions(env)
            n == Len(env.memories)
            observed == attrs(get_observation(env))
            names == {observed[i] : i \in 1..Len(observed)}
                         \ {SlotKeys["memory_"][i] : i \in 1..Len(SlotKeys["memory_"])}
            m == Cardinality(names)
            gates == SubSeq(actions, Len(base) + 1, Len(actions))
        IN  IF base = <<>> THEN actions = <<>>
            ELSE /\ Len(actions) = Len(base) + n * m
                 /\ SubSeq(actions, 1, Len(base)) = base
                 /\ \A k \in 1..Len(gates) :
                        /\ gates[k].name = "gate"
                        /\ getattr(gates[k], "attribute") \in names
                 /\ \A slot \in 0..(n - 1), attr \in names :
                        Cardinality({k \in 1..Len(gates) :
                            gates[k].attributes =
                                <<<<"slot", slot>>, <<"attribute", attr>>>>}) = 1

\* C10 witness: two slots, one of them filled by a gate action, and a base
\* environment that is not terminal, so that gate actions are on offer
C10_Witness ==
    /\ env.wrapper = "gating_memory"
    /\ Len(env.memories) = 2
    /\ \E i \in 1..2 : env.memories[i] # NoneValue
    /\ super_get_actions(env) # <<>>
    /\ Len(get_actions(env)) > Len(super_get_actions(env))

\* the attribute names of a record, as a set
AttrNames(d) == {d.attributes[i][1] : i \in 1..Len(d.attributes)}

\* the names prefix + '0', .., prefix + str(num - 1)
SlotNames(prefix, num) == {SlotKey(prefix, i) : i \in 0..(num - 1)}

\* the names that begin with the prefix
PrefixNames(prefix) == {SlotKeys[prefix][i] : i \in 1..Len(SlotKeys[prefix])}

\* C11: for a fixed_long_term_memory environment, in every reachable state
\* get_observation() carries the wm_ slot attributes and no ltm_ attribute,
\* and get_state() carries both the wm_ and the ltm_ slot attributes.
C11_LtmOnlyInState ==
    env.wrapper = "fixed_long_term_memory" =>
        /\ SlotNames("wm_", Len(env.wm)) \subseteq AttrNames(get_observation(env))
        /\ AttrNames(get_observation(env)) \cap PrefixNames("ltm_") = {}
        /\ SlotNames("wm_", Len(env.wm)) \subseteq AttrNames(get_state(env))
        /\ SlotNames("ltm_", Len(env.ltm)) \subseteq AttrNames(get_state(env))

\* C12: for a fixed_long_term_memory environment with W working-memory and
\* L long-term slots whose base action list is not empty, get_actions() is
\* the base actions, then exactly one store action per long-term slot and
\* per observable attribute that is not a wm_ or ltm_ slot attribute, and
\* exactly one retrieve action per pair of a working-memory and a long-term
\* slot, whatever the slots hold.
C12_StoreRetrieveActions ==
    (env.wrapper = "fixed_long_term_memory" /\ super_get_actions(env) # <<>>) =>
        LET base == super_get_actions(env)
            actions == get_actions(env)
            W == Len(env.wm)
            L == Len(env.ltm)
            names == AttrNames(get_observation(env))
                         \ (PrefixNames("wm_") \cup PrefixNames("ltm_"))
            rest == SubSeq(actions, Len(base) + 1, Len(actions))
        IN  /\ SubSeq(actions, 1, Len(base)) = base
            /\ Len(rest) = L * Cardinality(names) + W * L
            /\ \A k \in 1..Len(rest) :
                   \/ /\ rest[k].name = "store"
                      /\ getattr(rest[k], "attribute") \in names
                   \/ rest[k].name = "retrieve"
            /\ \A slot \in 0..(L - 1), attr \in names :
                   Cardinality({k \in 1..Len(rest) :
                       rest[k] = Action("store", <<<<"slot", slot>>,
                                                   <<"attribute", attr>>>>)}) = 1
            /\ \A w \in 0..(W - 1), l \in 0..(L - 1) :
                   Cardinality({k \in 1..Len(rest) :
                       rest[k] = Action("retrieve", <<<<"wm_slot", w>>,
                                                      <<"ltm_slot", l>>>>)}) = 1

\* the environment without its decorator: the base environment
Undecorated(self) == [self EXCEPT !.wrapper = ""]

\* action is one of the actions get_actions() returns
Legal(self, action) ==
    \E i \in 1..Len(get_actions(self)) : get_actions(self)[i] = action

\* C13: in a decorated environment, react on a legal gate / store / retrieve
\* action returns the configured internal reward and changes only the
\* addressed slot (gate: memories[slot] becomes the base observation's
\* value of the attribute; store: ltm[slot] becomes that value; retrieve:
\* wm[wm_slot] becomes ltm[ltm_slot]), the base environment and the other
\* slots staying as they were; react on any other legal action returns the
\* base environment's reward, moves the base environment as its own react
\* does, and leaves every slot unchanged.
C13_InternalActionsOnlySlots ==
    [][(/\ call'.op = "react"
        /\ env.wrapper # ""
        /\ Legal(env, call'.action))
       => LET action == call'.action
              observation == get_observation(Undecorated(env))
          IN  /\ call'.raised = ""
              /\ IF action.name = "gate"
                 THEN /\ call'.reward = env.reward
                      /\ hasattr(observation, getattr(action, "attribute"))
                      /\ env' = [env EXCEPT !.memories[getattr(action, "slot") + 1] =
                                    getattr(observation, getattr(action, "attribute"))]
                 ELSE IF action.name = "store"
                 THEN /\ call'.reward = env.reward
                      /\ hasattr(observation, getattr(action, "attribute"))
                      /\ env' = [env EXCEPT !.ltm[getattr(action, "slot") + 1] =
                                    getattr(observation, getattr(action, "attribute"))]
                 ELSE IF action.name = "retrieve"
                 THEN /\ call'.reward = env.reward
                      /\ env' = [env EXCEPT !.wm[getattr(action, "wm_slot") + 1] =
                                    env.ltm[getattr(action, "ltm_slot") + 1]]
                 ELSE LET r == react(Undecorated(env), action)
                      IN  /\ call'.reward = r.ret
                          /\ env' = [r.self EXCEPT !.wrapper = env.wrapper]
    ]_vars

\* the base environment is at its episode start
AtEpisodeStart(self) ==
    IF self.cls = "GridWorld"
    THEN self.row = self.start[1] /\ self.col = self.start[2]
    ELSE /\ self.x = 0
         /\ self.y = 0
         /\ IF self.init_goal_x = 0 THEN self.goal_x \in {-1, 1}
            ELSE self.goal_x = self.init_goal_x

\* C14: in a decorated environment, start_new_episode() and reset() leave
\* memories, wm and ltm all None with the length they had, and the base
\* environment at its episode start, whatever was done before.
C14_SlotsClearedAtEpisodeStart ==
    [][(call'.op \in {"start_new_episode", "reset"} /\ env.wrapper # "")
       => /\ env'.memories = Nones(Len(env.memories))
          /\ env'.wm = Nones(Len(env.wm))
          /\ env'.ltm = Nones(Len(env.ltm))
          /\ AtEpisodeStart(env')
    ]_vars

\* C14 witness: start_new_episode() or reset() was called on a decorated
\* environment that had moved and held a value in a working-memory slot
\* and in a long-term slot, and the slots are now all None
C14_Witness ==
    /\ call.op \in {"start_new_episode", "reset"}
    /\ env.wrapper = "fixed_long_term_memory"
    /\ \E i \in 1..Len(call.before.attributes) :
           /\ startswith(call.before.attributes[i][1], "wm_")
           /\ call.before.attributes[i][2] # NoneValue
    /\ \E i \in 1..Len(call.before.attributes) :
           /\ startswith(call.before.attributes[i][1], "ltm_")
           /\ call.before.attributes[i][2] # NoneValue
    /\ \E i \in 1..Len(call.before.attributes) :
           /\ call.before.attributes[i][1] \in {"col", "y"}
           /\ call.before.attributes[i][2] > 0
    /\ env.wm = Nones(Len(env.wm))
    /\ env.ltm = Nones(Len(env.ltm))
    /\ AtEpisodeStart(env)

\* the environment constructed anew with the parameters self was
\* constructed with
Constructed(self) ==
    LET base == IF self.cls = "GridWorld"
                THEN GridWorld(self.width, self.height, self.start, self.goal)
                ELSE SimpleTMaze(self.length, self.hint_pos, self.init_goal_x)
    IN  IF self.wrapper = "gating_memory"
        THEN gating_memory(base, Len(self.memories), self.reward)
        ELSE IF self.wrapper = "fixed_long_term_memory"
        THEN fixed_long_term_memory(base, Len(self.wm), Len(self.ltm), self.reward)
        ELSE base

\* C15: after reset(), bare or decorated, get_state(), get_observation() and
\* get_actions() return what they return right after the construction of an
\* environment with the same parameters.
C15_ResetIsReconstruction ==
    [][call'.op = "reset"
       => /\ get_state(env') = get_state(Constructed(env))
          /\ get_observation(env') = get_observation(Constructed(env))
          /\ get_actions(env') = get_actions(Constructed(env))
    ]_vars

\* C18: in a decorated environment whose base environment is terminal
\* (its get_actions() is []), react on a gate, store or retrieve action is
\* rejected and leaves the environment, every slot vector included, as it
\* was.
C18_NoMemoryActionAfterEnd ==
    [][(/\ call'.op = "react"
        /\ env.wrapper # ""
        /\ super_get_actions(env) = <<>>
        /\ call'.action.name \in {"gate", "store", "retrieve"})
       => (call'.raised # "" /\ env' = env)
    ]_vars

-----------------------------------------------------------------------------
(* Claims about the records, under SpecRecord. *)

\* C9: a == b iff a and b are of the same kind, carry the same attribute
\* key/value pairs and, for Actions, the same name; and a == b implies
\* hash(a) == hash(b).
C9_EqualityAndHash ==
    /\ rec.eq <=> (/\ rec.a.kind = rec.b.kind
                   /\ items(rec.a) = items(rec.b)
                   /\ rec.a.name = rec.b.name)
    /\ rec.eq => rec.hash_a = rec.hash_b

-----------------------------------------------------------------------------
(* Claims about augment_state, under SpecAugment. *)

\* the attributes of a record whose name begins with the prefix
PrefixItems(d, prefix) == {kv \in items(d) : startswith(kv[1], prefix)}

\* C16: augment_state(state, vector, prefix) has exactly Len(vector)
\* attributes with the prefix, valued as the vector, and every attribute of
\* the state that does not begin with the prefix, with its value; applied
\* again to its result with the same vector it returns an equal state.
C16_AugmentStateIdempotent ==
    call.op = "augment_state" =>
        /\ call.ret.kind = "State"
        /\ Len(call.ret.attributes) = Cardinality(items(call.ret))
        /\ PrefixItems(call.ret, call.prefix)
               = {<<SlotKey(call.prefix, i - 1), call.memories[i]>> :
                      i \in 1..Len(call.memories)}
        /\ items(call.ret) \ PrefixItems(call.ret, call.prefix)
               = items(call.observation) \ PrefixItems(call.observation, call.prefix)
        /\ AttrDict_eq(augment_state(call.ret, call.memories, call.prefix), call.ret)
        /\ hash(augment_state(call.ret, call.memories, call.prefix)) = hash(call.ret)

\* C16 witness: a state that carries the slot attributes of the prefix and
\* other attributes is augmented with a different vector of the same length
C16_Witness ==
    /\ call.op = "augment_state"
    /\ Len(call.memories) = 2
    /\ Cardinality(PrefixItems(call.observation, call.prefix)) = 2
    /\ PrefixItems(call.observation, call.prefix) # PrefixItems(call.ret, call.prefix)
    /\ items(call.observation) \ PrefixItems(call.observation, call.prefix) # {}

-----------------------------------------------------------------------------
(* Claims about run_episodes, under SpecRun and SpecEndToEnd. *)

\* C3: with a TabularQLearningAgent, every action run_episodes passes to
\* env.react is a member of the list env.get_actions() returns for the
\* state of the environment right before that react call.
C3_ReactOnlyLegalActions ==
    (run.pc = "react" /\ ~run.epsilon_greedy) =>
        \E i \in 1..Len(get_actions(env)) : get_actions(env)[i] = run.action

\* C3 witness: in a later episode in a decorated environment, the action
\* about to be passed to react is the best stored action of an observation
\* seen before, and it is a memory action
C3_Witness ==
    /\ run.pc = "react"
    /\ ~run.epsilon_greedy
    /\ run.episode >= 1
    /\ env.wrapper # ""
    /\ get_best_action(agent, run.obs) = run.action
    /\ run.action.name \in {"gate", "store", "retrieve"}

\* the run of C17: GridWorld(3, 1, [0, 0], [0, 2]) with a gating memory of
\* one slot and internal reward 0, and an epsilon-greedy agent with
\* epsilon = 0, alpha = 0.5, gamma = 0.9
EndToEndRun ==
    /\ env.cls = "GridWorld"
    /\ env.wrapper = "gating_memory"
    /\ <<env.width, env.height, env.start, env.goal>> = <<3, 1, <<0, 0>>, <<0, 2>>>>
    /\ Len(env.memories) = 1
    /\ env.reward = Zero
    /\ run.epsilon_greedy
    /\ agent.exploration_rate = Zero
    /\ agent.learning_rate = Rat(1, 2)
    /\ agent.discount_rate = Rat(9, 10)

\* the regime of C17: the run goes on without an exception, every action
\* chosen is 'right', no episode takes more than 2 steps and the return of
\* the last finished episode is 1 + 1
RightRegime ==
    /\ run.pc \in {"for", "while", "react", "done"}
    /\ run.pc = "react" => run.action.name = "right"
    /\ run.step <= 2
    /\ run.pc = "for" => run.step = 2
    /\ Len(run.returns) > 0 /\ run.returns[Len(run.returns)] = Rat(2, 1)

\* C17: the run of EndToEndRun reaches the regime RightRegime and stays in
\* it.  A run that has stopped stays where it is for ever, so it must have
\* stopped in the regime: by returning, not by an exception, with the last
\* episode of 2 steps and return 1 + 1.
C17_ConvergesToRight ==
    (EndToEndRun /\ run.pc \notin {"for", "while", "react"}) => RightRegime

\* Whether the while loop of run_episodes, entered with the environment e
\* and the agent a and followed for at most k iterations in which
\* Agent.act finds a best stored action (and so draws nothing at random),
\* comes back to the environment e0 and the agent a0 at the head of the
\* loop.
RECURSIVE StoredCycle(_, _, _, _, _)
StoredCycle(e0, a0, e, a, k) ==
    IF k = 0 \/ end_of_episode(e) THEN FALSE
    ELSE LET obs == get_observation(e)
             action == get_best_action(a, obs)
         IN  IF action = None THEN FALSE
             ELSE LET r == react(e, action) IN
                  IF r.raised # "" THEN FALSE
                  ELSE LET acted == force_act(a, obs, action)
                           learned == observe_reward(acted, get_observation(r.self),
                                                     r.ret)
                       IN  \/ r.self = e0 /\ learned = a0
                           \/ StoredCycle(e0, a0, r.self, learned, k - 1)

\* C20: with a TabularQLearningAgent on a GridWorld, bare or with a gating
\* memory, every episode of run_episodes ends: the while loop is never at a
\* point from which the agent's stored best actions lead back to the same
\* environment and the same agent, which would repeat forever.
C20_EveryEpisodeEnds ==
    (/\ run.pc = "while"
     /\ ~run.epsilon_greedy
     /\ env.cls = "GridWorld"
     /\ env.wrapper \in {"", "gating_memory"})
    => ~StoredCycle(env, agent, env, agent, MaxSteps)

-----------------------------------------------------------------------------
(* Claims about two episodes of a memory-decorated SimpleTMaze, under      *)
(* SpecTwin.                                                               *)

\* the values of the attributes of the base observation
BaseValues(self) ==
    {super_get_observation(self).attributes[i][2] :
         i \in 1..Len(super_get_observation(self).attributes)}

\* every slot of new holds what it held in old, or None, or the value of an
\* attribute of old's base observation; a working-memory slot may also hold
\* what a long-term slot of old held
SlotsCopied(old, new) ==
    /\ \A k \in 1..Len(new.memories) :
           new.memories[k] \in {old.memories[k], NoneValue} \cup BaseValues(old)
    /\ \A k \in 1..Len(new.ltm) :
           new.ltm[k] \in {old.ltm[k], NoneValue} \cup BaseValues(old)
    /\ \A k \in 1..Len(new.wm) :
           new.wm[k] \in {old.wm[k], NoneValue}
                          \cup {old.ltm[l] : l \in 1..Len(old.ltm)}

\* C21: two episodes of a gating_memory- or fixed_long_term_memory-wrapped
\* SimpleTMaze that differ only in goal_x and are given the same legal
\* actions have the same get_observation() wherever y differs from hint_pos,
\* as long as no gate or store of the attribute symbol was executed while y
\* equalled hint_pos; and a call changes a slot only to None, to the value
\* of an attribute of the base observation (x, y, symbol) or, in working
\* memory, to the content of a long-term slot.
C21_NoHiddenStateLeak ==
    /\ []((env[1].y # env[1].hint_pos /\ "symbol" \notin written)
           => get_observation(env[1]) = get_observation(env[2]))
    /\ [][\A i \in 1..2 : SlotsCopied(env[i], env'[i])]_vars

\* the two goals differ, the walker has left the hint behind it after
\* gating or storing x or y there, and a slot is filled
C21_Witness ==
    /\ env[1].goal_x # 0
    /\ env[1].goal_x = -env[2].goal_x
    /\ env[1].y > env[1].hint_pos
    /\ written # {}
    /\ "symbol" \notin written
    /\ \/ \E k \in 1..Len(env[1].memories) : env[1].memories[k] # NoneValue
       \/ \E k \in 1..Len(env[1].wm) : env[1].wm[k] # NoneValue

-----------------------------------------------------------------------------
(* Claims about an episode of a bare SimpleTMaze, under SpecEpisode. *)

\* the move is towards the goal
TowardsGoal(self, action) ==
    \/ action.name = "right" /\ self.goal_x = 1
    \/ action.name = "left" /\ self.goal_x = -1

\* C22: on a bare SimpleTMaze constructed with goal_x in {-1, 0, 1}, after
\* start_new_episode() goal_x is -1 or 1, and the episode is over after
\* exactly length + 1 react calls with legal actions and not before: the
\* first length calls are up and are rewarded -1 each, the last is left or
\* right and is rewarded 10 when it is towards goal_x and -10 otherwise.
C22_EpisodeShape ==
    run.pc = "episode" =>
        /\ env.goal_x \in {-1, 1}
        /\ run.step <= env.length + 1
        /\ end_of_episode(env) <=> run.step = env.length + 1
        /\ \A k \in 1..run.step :
               IF k <= env.length
               THEN /\ run.actions[k].name = "up"
                    /\ run.returns[k] = Rat(-1, 1)
               ELSE /\ run.actions[k].name \in {"left", "right"}
                    /\ run.returns[k] = IF TowardsGoal(env, run.actions[k])
                                        THEN Rat(10, 1) ELSE Rat(-10, 1)

\* an episode with a drawn goal that ended on the wrong side of a hallway
\* longer than one
C22_Witness ==
    /\ run.pc = "episode"
    /\ env.init_goal_x = 0
    /\ env.length > 1
    /\ run.step = env.length + 1
    /\ end_of_episode(env)
    /\ run.returns[run.step] = Rat(-10, 1)

====
